---- MODULE Spec2Model ----
(***************************************************************************)
(* Klondike rule engine (src/Klondike/game.py): the seven tableau piles,   *)
(* the four suit foundations, the stock, the hand buffer and Game.place.   *)
(* The card module (Card, CardSuit, CardFace, CardDeck and its subclasses) *)
(* is not part of the sources at hand; its operations are modelled from    *)
(* the written specification and are marked as such where they appear.     *)
(* Where game.py behaves differently depending on how that module is       *)
(* written and nothing in game.py settles it, the variable card_module     *)
(* holds the way it is written; it is chosen when the program starts and   *)
(* never changes.                                                          *)
(***************************************************************************)
EXTENDS Integers, Sequences, FiniteSets, TLC

VARIABLES stock_deck, decks, foundations, hand_deck, call, card_module

vars == <<stock_deck, decks, foundations, hand_deck, call, card_module>>

(***************************************************************************)
(* Cards.  A card is a record [suit, face]; face carries the rank 1..13.   *)
(***************************************************************************)
SPADES == 0
HEARTS == 1
DIAMONDS == 2
CLUBS == 3
ACE == 1
KING == 13
FOUNDATION_FULL == 13
FOUNDATION_BIT == 16
NUM_TABLEAUS == 7
NUM_SUITS == 4
STOCK_INDEX == -1

CardSuit == SPADES..CLUBS
CardFace == ACE..KING

Card(s, f) == [suit |-> s, face |-> f]

AllCards == {Card(s, f) : s \in CardSuit, f \in CardFace}

\* card.CardSuit.is_same_color: Spades and Clubs are black, Hearts and
\* Diamonds are red.
is_same_color(s1, s2) == (s1 \in {SPADES, CLUBS}) = (s2 \in {SPADES, CLUBS})

(***************************************************************************)
(* The point at which game.py depends on how the card module is written.   *)
(*   int_faces: CardFace members compare equal to their integer values     *)
(*     (an IntEnum); with a plain Enum a member never equals an integer.   *)
(***************************************************************************)
CardModules == [int_faces : BOOLEAN]

\* member == value, for a CardFace member and an integer (line 57).
CardFace_eq_value(member, value) == card_module.int_faces /\ member = value

(***************************************************************************)
(* Python list indexing: deck[i] for any integer i.                        *)
(***************************************************************************)
PyIndexOk(len, i) == (0 - len) <= i /\ i < len

PyGet(seq, i) == IF i >= 0 THEN seq[i + 1] ELSE seq[Len(seq) + i + 1]

(***************************************************************************)
(* CardDeck (card.CardDeck and the Stock/Hidden/Shown/hand decks).         *)
(* take(n) removes and returns the top n cards in their order and needs    *)
(* 1 <= n <= length; put appends in order.                                 *)
(***************************************************************************)
CardDeck_take(deck, n) ==
    IF 1 <= n /\ n <= Len(deck)
    THEN [err |-> "", deck |-> SubSeq(deck, 1, Len(deck) - n),
          taken |-> SubSeq(deck, Len(deck) - n + 1, Len(deck))]
    ELSE [err |-> "EmptyError", deck |-> deck, taken |-> <<>>]

CardDeck_put(deck, cards) == deck \o cards

\* hand_deck.take(card.MAX_CARDS): the hand gives up everything it holds.
CardDeck_take_all(deck) == [err |-> "", deck |-> <<>>, taken |-> deck]

(***************************************************************************)
(* TableauPile                                                             *)
(***************************************************************************)
\* Faulty variant of take: the top hidden card is never turned face up.
TableauPile_take_no_reveal(pile, n) ==
    LET x == CardDeck_take(pile.shown_deck, n)
    IN  IF x.err # ""
        THEN [err |-> x.err, pile |-> pile, taken |-> <<>>]
        ELSE [err |-> "",
              pile |-> [hidden_deck |-> pile.hidden_deck, shown_deck |-> x.deck],
              taken |-> x.taken]

\* Faulty variant of take: the top hidden card is turned face up and also
\* left in the hidden deck.
TableauPile_take_reveal_copy(pile, n) ==
    LET x == CardDeck_take(pile.shown_deck, n)
    IN  IF x.err # ""
        THEN [err |-> x.err, pile |-> pile, taken |-> <<>>]
        ELSE IF x.deck = <<>> /\ pile.hidden_deck # <<>>
             THEN [err |-> "",
                   pile |-> [hidden_deck |-> pile.hidden_deck,
                             shown_deck |-> CardDeck_put(x.deck,
                                               CardDeck_take(pile.hidden_deck, 1).taken)],
                   taken |-> x.taken]
             ELSE [err |-> "",
                   pile |-> [hidden_deck |-> pile.hidden_deck, shown_deck |-> x.deck],
                   taken |-> x.taken]

TableauPile_take(pile, n) ==
    LET x == CardDeck_take(pile.shown_deck, n)
    IN  IF x.err # ""
        THEN [err |-> x.err, pile |-> pile, taken |-> <<>>]
        ELSE IF x.deck = <<>> /\ pile.hidden_deck # <<>>
             THEN LET h == CardDeck_take(pile.hidden_deck, 1)
                  IN  [err |-> "",
                       pile |-> [hidden_deck |-> h.deck,
                                 shown_deck |-> CardDeck_put(x.deck, h.taken)],
                       taken |-> x.taken]
             ELSE [err |-> "",
                   pile |-> [hidden_deck |-> pile.hidden_deck, shown_deck |-> x.deck],
                   taken |-> x.taken]

\* Faulty variant of put: the cards are pushed top card first, which turns
\* the run upside down.
TableauPile_put_reversed(pile, cards) ==
    [hidden_deck |-> pile.hidden_deck,
     shown_deck |-> pile.shown_deck
                    \o [k \in 1..Len(cards) |-> cards[Len(cards) - k + 1]]]

TableauPile_put(pile, cards) ==
    [hidden_deck |-> pile.hidden_deck,
     shown_deck |-> CardDeck_put(pile.shown_deck, cards)]

\* Faulty variant of verify: the colours are not compared.
TableauPile_verify_rank_only(pile, verify_card) ==
    IF pile.shown_deck # <<>>
    THEN PyGet(pile.shown_deck, -1).face - verify_card.face = 1
    ELSE CardFace_eq_value(KING, verify_card.face)

TableauPile_verify(pile, verify_card) ==
    IF pile.shown_deck # <<>>
    THEN /\ PyGet(pile.shown_deck, -1).face - verify_card.face = 1
         /\ ~is_same_color(verify_card.suit, PyGet(pile.shown_deck, -1).suit)
    ELSE CardFace_eq_value(KING, verify_card.face)

(***************************************************************************)
(* SuitDeck (foundation).  Foundation i collects suit i.                   *)
(***************************************************************************)
\* SuitDeck.__put: one card, checked against the suit and the top card.
\* No call of game.py reaches it.
SuitDeck_put_one(deck, suit, puts_card) ==
    IF suit = puts_card.suit
    THEN IF (IF deck = <<>> THEN puts_card.face = ACE
             ELSE puts_card.face - PyGet(deck, -1).face = 1)
         THEN [err |-> "", deck |-> Append(deck, puts_card)]
         ELSE [err |-> "ValueError", deck |-> deck]
    ELSE [err |-> "ValueError", deck |-> deck]

\* SuitDeck.put.  SuitDeck defines no put of its own and inherits the one
\* of CardDeck; its __put is private to the class (_SuitDeck__put) and out
\* of the reach of the inherited method, so the cards are appended as they
\* come.
SuitDeck_put(deck, suit, cards) == [err |-> "", deck |-> CardDeck_put(deck, cards)]

\* Faulty variant of verify: an empty foundation takes the Ace of any suit.
SuitDeck_verify_any_ace(deck, suit, verify_card) ==
    IF deck # <<>>
    THEN /\ PyGet(deck, -1).face - verify_card.face = -1
         /\ verify_card.suit = suit
    ELSE ACE = verify_card.face

SuitDeck_verify(deck, suit, verify_card) ==
    IF deck # <<>>
    THEN /\ PyGet(deck, -1).face - verify_card.face = -1
         /\ verify_card.suit = suit
    ELSE ACE = verify_card.face /\ verify_card.suit = suit

\* Faulty variant of take: the foundation gives cards up like any deck.
SuitDeck_take_inherited(deck, n) == CardDeck_take(deck, n)

SuitDeck_take(deck, n) == [err |-> "NotImplementedError", deck |-> deck, taken |-> <<>>]

(***************************************************************************)
(* Game                                                                    *)
(***************************************************************************)
GameRec(s, d, f, h) ==
    [stock_deck |-> s, decks |-> d, foundations |-> f, hand_deck |-> h]

\* Number of cards dealt to the tableaus left of tableau i.
DealtBefore(i) == (i * (i + 1)) \div 2

\* Faulty variant of __init__: the last card drawn by a tableau is left
\* face down (line 164 left out).
Game_init_no_reveal(full_deck) ==
    LET n == Len(full_deck)
        drawn(k) == full_deck[n - k + 1]
        hid(i) == [j \in 1..(i + 1) |-> drawn(DealtBefore(i) + j)]
    IN  GameRec(SubSeq(full_deck, 1, n - DealtBefore(NUM_TABLEAUS)),
                [i \in 0..(NUM_TABLEAUS - 1) |->
                    [hidden_deck |-> hid(i), shown_deck |-> <<>>]],
                [k \in 0..(NUM_SUITS - 1) |-> <<>>],
                <<>>)

\* Game.__init__: tableau i draws i + 1 cards from the top of the stock into
\* its hidden deck, one at a time, then turns the last of them face up.
Game_init(full_deck) ==
    LET n == Len(full_deck)
        drawn(k) == full_deck[n - k + 1]
        hid(i) == [j \in 1..(i + 1) |-> drawn(DealtBefore(i) + j)]
    IN  GameRec(SubSeq(full_deck, 1, n - DealtBefore(NUM_TABLEAUS)),
                [i \in 0..(NUM_TABLEAUS - 1) |->
                    [hidden_deck |-> SubSeq(hid(i), 1, i),
                     shown_deck |-> SubSeq(hid(i), i + 1, i + 1)]],
                [k \in 0..(NUM_SUITS - 1) |-> <<>>],
                <<>>)

\* Faulty variant of the flag test: the 0x10 bit is set (index | 0b10000)
\* instead of flipped.
Xor16_or(i) ==
    IF (i \div FOUNDATION_BIT) % 2 = 1 THEN i ELSE i + FOUNDATION_BIT

\* index ^ 0b10000 on Python integers (two's complement, any sign).
Xor16(i) ==
    IF (i \div FOUNDATION_BIT) % 2 = 1 THEN i - FOUNDATION_BIT ELSE i + FOUNDATION_BIT

\* Lines 205-211: which list the source index selects, and the index in it.
TakeRef(take_index) ==
    IF take_index = STOCK_INDEX THEN [kind |-> "stock", index |-> take_index, size |-> 1]
    ELSE IF Xor16(take_index) < FOUNDATION_BIT
         THEN [kind |-> "foundation", index |-> Xor16(take_index), size |-> NUM_SUITS]
         ELSE [kind |-> "tableau", index |-> take_index, size |-> NUM_TABLEAUS]

\* Lines 215-217, for a destination index other than -1.
PutRef(put_index) ==
    IF Xor16(put_index) < FOUNDATION_BIT
    THEN [kind |-> "foundation", index |-> Xor16(put_index), size |-> NUM_SUITS]
    ELSE [kind |-> "tableau", index |-> put_index, size |-> NUM_TABLEAUS]

\* to_take[take_index] / to_put[put_index] exist (Python list indexing).
RefOk(ref) == PyIndexOk(ref.size, ref.index)

\* The position in 0..size-1 that a Python list index denotes.
RefPos(ref) == IF ref.index >= 0 THEN ref.index ELSE ref.size + ref.index

\* to_take[take_index].deck
RefDeck(g, ref) ==
    IF ref.kind = "stock" THEN g.stock_deck
    ELSE IF ref.kind = "foundation" THEN g.foundations[RefPos(ref)]
    ELSE g.decks[RefPos(ref)].shown_deck

\* to_put[put_index].verify(card)
RefVerify(g, ref, c) ==
    IF ref.kind = "foundation"
    THEN SuitDeck_verify(g.foundations[RefPos(ref)], RefPos(ref), c)
    ELSE TableauPile_verify(g.decks[RefPos(ref)], c)

\* Faulty variant of the take at line 225: a count below one takes nothing
\* and raises nothing.
RefTake_nothing_ok(g, ref, n) ==
    IF n < 1 THEN [err |-> "", taken |-> <<>>, g |-> g]
    ELSE IF ref.kind = "stock"
    THEN LET t == CardDeck_take(g.stock_deck, n)
         IN  [err |-> t.err, taken |-> t.taken,
              g |-> [g EXCEPT !.stock_deck = t.deck]]
    ELSE IF ref.kind = "foundation"
    THEN LET t == SuitDeck_take(g.foundations[RefPos(ref)], n)
         IN  [err |-> t.err, taken |-> t.taken,
              g |-> [g EXCEPT !.foundations[RefPos(ref)] = t.deck]]
    ELSE LET t == TableauPile_take(g.decks[RefPos(ref)], n)
         IN  [err |-> t.err, taken |-> t.taken,
              g |-> [g EXCEPT !.decks[RefPos(ref)] = t.pile]]

\* to_take[take_index].take(take_number)
RefTake(g, ref, n) ==
    IF ref.kind = "stock"
    THEN LET t == CardDeck_take(g.stock_deck, n)
         IN  [err |-> t.err, taken |-> t.taken,
              g |-> [g EXCEPT !.stock_deck = t.deck]]
    ELSE IF ref.kind = "foundation"
    THEN LET t == SuitDeck_take(g.foundations[RefPos(ref)], n)
         IN  [err |-> t.err, taken |-> t.taken,
              g |-> [g EXCEPT !.foundations[RefPos(ref)] = t.deck]]
    ELSE LET t == TableauPile_take(g.decks[RefPos(ref)], n)
         IN  [err |-> t.err, taken |-> t.taken,
              g |-> [g EXCEPT !.decks[RefPos(ref)] = t.pile]]

\* to_put[put_index].put(cards)
RefPut(g, ref, cards) ==
    IF ref.kind = "foundation"
    THEN LET p == SuitDeck_put(g.foundations[RefPos(ref)], RefPos(ref), cards)
         IN  [err |-> p.err, g |-> [g EXCEPT !.foundations[RefPos(ref)] = p.deck]]
    ELSE [err |-> "",
          g |-> [g EXCEPT !.decks[RefPos(ref)] = TableauPile_put(@, cards)]]

\* Faulty variant of the transfer: the destination is given the cards taken
\* from the source and the hand is never emptied.
Transfer_hand_kept(g, tk, pt, take_number) ==
    LET t == RefTake(g, tk, take_number)
    IN  IF t.err # ""
        THEN [g |-> g, res |-> t.err, verdict |-> "accept"]
        ELSE LET g1 == [t.g EXCEPT !.hand_deck = CardDeck_put(@, t.taken)]
                 p == RefPut(g1, pt, t.taken)
             IN  [g |-> p.g, res |-> IF p.err = "" THEN "ok" ELSE p.err,
                  verdict |-> "accept"]

\* Lines 225-227, once verify has accepted: source -> hand -> destination.
Transfer(g, tk, pt, take_number) ==
    LET t == RefTake(g, tk, take_number)
    IN  IF t.err # ""
        THEN [g |-> g, res |-> t.err, verdict |-> "accept"]
        ELSE LET g1 == [t.g EXCEPT !.hand_deck = CardDeck_put(@, t.taken)]
                 h == CardDeck_take_all(g1.hand_deck)
                 g2 == [g1 EXCEPT !.hand_deck = h.deck]
                 p == RefPut(g2, pt, h.taken)
             IN  [g |-> p.g, res |-> IF p.err = "" THEN "ok" ELSE p.err,
                  verdict |-> "accept"]

\* The call ends with exception `name` before any container is touched.
Raise(g, name, verdict) == [g |-> g, res |-> name, verdict |-> verdict]

\* Faulty variant of place: the cards are taken into the hand before the
\* destination is asked (lines 224 and 225 in the other order), and stay
\* there when it refuses.
place_take_before_verify(g, take_number, take_index, put_index) ==
    IF take_index = put_index THEN Raise(g, "MoveError", "none")
    ELSE IF take_index = STOCK_INDEX /\ take_number > 1 THEN Raise(g, "MoveError", "none")
    ELSE IF put_index = STOCK_INDEX THEN Raise(g, "MoveError", "none")
    ELSE LET tk == TakeRef(take_index)
             pt == PutRef(put_index)
         IN  IF ~RefOk(pt) \/ ~RefOk(tk) THEN Raise(g, "IndexError", "none")
             ELSE IF ~PyIndexOk(Len(RefDeck(g, tk)), 0 - take_number)
                  THEN Raise(g, "IndexError", "none")
             ELSE IF ~RefVerify(g, pt, PyGet(RefDeck(g, tk), 0 - take_number))
                  THEN LET t == RefTake(g, tk, take_number)
                       IN  IF t.err # "" THEN Raise(g, t.err, "reject")
                           ELSE Raise([t.g EXCEPT !.hand_deck = CardDeck_put(@, t.taken)],
                                      "MoveError", "reject")
             ELSE Transfer(g, tk, pt, take_number)

\* Faulty variant of place: the stock is not refused as a destination
\* (lines 213-214 left out).
place_stock_dest_unchecked(g, take_number, take_index, put_index) ==
    IF take_index = put_index THEN Raise(g, "MoveError", "none")
    ELSE IF take_index = STOCK_INDEX /\ take_number > 1 THEN Raise(g, "MoveError", "none")
    ELSE LET tk == TakeRef(take_index)
             pt == PutRef(put_index)
         IN  IF ~RefOk(pt) \/ ~RefOk(tk) THEN Raise(g, "IndexError", "none")
             ELSE IF ~PyIndexOk(Len(RefDeck(g, tk)), 0 - take_number)
                  THEN Raise(g, "IndexError", "none")
             ELSE IF ~RefVerify(g, pt, PyGet(RefDeck(g, tk), 0 - take_number))
                  THEN Raise(g, "MoveError", "reject")
             ELSE Transfer(g, tk, pt, take_number)

\* Faulty variant of place: source and destination may be the same pile
\* (lines 201-203 left out).
place_same_index_unchecked(g, take_number, take_index, put_index) ==
    IF take_index = STOCK_INDEX /\ take_number > 1 THEN Raise(g, "MoveError", "none")
    ELSE IF put_index = STOCK_INDEX THEN Raise(g, "MoveError", "none")
    ELSE LET tk == TakeRef(take_index)
             pt == PutRef(put_index)
         IN  IF ~RefOk(pt) \/ ~RefOk(tk) THEN Raise(g, "IndexError", "none")
             ELSE IF ~PyIndexOk(Len(RefDeck(g, tk)), 0 - take_number)
                  THEN Raise(g, "IndexError", "none")
             ELSE IF ~RefVerify(g, pt, PyGet(RefDeck(g, tk), 0 - take_number))
                  THEN Raise(g, "MoveError", "reject")
             ELSE Transfer(g, tk, pt, take_number)

\* Game.place(take_number, take_index, put_index): the game afterwards, "ok"
\* or the name of the exception raised, and what verify at line 224 said
\* ("none" when the call ended before it).
place(g, take_number, take_index, put_index) ==
    IF take_index = put_index THEN Raise(g, "MoveError", "none")
    ELSE IF take_index = STOCK_INDEX /\ take_number > 1 THEN Raise(g, "MoveError", "none")
    ELSE IF put_index = STOCK_INDEX THEN Raise(g, "MoveError", "none")
    ELSE LET tk == TakeRef(take_index)
             pt == PutRef(put_index)
         IN  IF ~RefOk(pt) \/ ~RefOk(tk) THEN Raise(g, "IndexError", "none")
             ELSE IF ~PyIndexOk(Len(RefDeck(g, tk)), 0 - take_number)
                  THEN Raise(g, "IndexError", "none")
             ELSE IF ~RefVerify(g, pt, PyGet(RefDeck(g, tk), 0 - take_number))
                  THEN Raise(g, "MoveError", "reject")
             ELSE Transfer(g, tk, pt, take_number)

\* Faulty variant of is_finished: one full foundation is enough.
is_finished_any(g) == \E i \in 0..(NUM_SUITS - 1) : Len(g.foundations[i]) = FOUNDATION_FULL

is_finished(g) == \A i \in 0..(NUM_SUITS - 1) : Len(g.foundations[i]) = FOUNDATION_FULL

(***************************************************************************)
(* Full decks as StockDeck(full=True) may hold them, bottom card first     *)
(* (the top of the stock is the last element).                             *)
(***************************************************************************)
DeckPlay ==
    << Card(DIAMONDS, 1), Card(CLUBS, 1), Card(CLUBS, 12), Card(CLUBS, 11),
       Card(CLUBS, 10), Card(CLUBS, 9), Card(CLUBS, 8), Card(CLUBS, 6),
       Card(CLUBS, 5), Card(CLUBS, 3), Card(CLUBS, 2), Card(DIAMONDS, 13),
       Card(DIAMONDS, 12), Card(DIAMONDS, 11), Card(DIAMONDS, 10), Card(DIAMONDS, 9),
       Card(DIAMONDS, 8), Card(DIAMONDS, 7), Card(DIAMONDS, 6), Card(DIAMONDS, 4),
       Card(DIAMONDS, 3), Card(DIAMONDS, 2), Card(DIAMONDS, 5), Card(SPADES, 13),
       Card(SPADES, 11), Card(HEARTS, 7), Card(HEARTS, 8), Card(HEARTS, 9),
       Card(HEARTS, 10), Card(HEARTS, 11), Card(HEARTS, 13), Card(HEARTS, 1),
       Card(SPADES, 4), Card(HEARTS, 3), Card(HEARTS, 4), Card(HEARTS, 5),
       Card(HEARTS, 6), Card(SPADES, 2), Card(CLUBS, 4), Card(SPADES, 9),
       Card(SPADES, 10), Card(HEARTS, 2), Card(SPADES, 1), Card(SPADES, 7),
       Card(SPADES, 6), Card(SPADES, 8), Card(SPADES, 12), Card(SPADES, 3),
       Card(SPADES, 5), Card(CLUBS, 13), Card(CLUBS, 7), Card(HEARTS, 12) >>

Decks == {DeckPlay}

(***************************************************************************)
(* The state machine: the game object and the outcome of the place call    *)
(* that the caller has made and not yet looked at.                         *)
(***************************************************************************)
MaxCount == 3

TakeNumbers == (-1)..MaxCount

Indices == {-19, -17, -2, -1} \cup (0..7) \cup (16..20)

Game == GameRec(stock_deck, decks, foundations, hand_deck)

Idle == [n |-> 0, ti |-> 0, pi |-> 0, res |-> "idle", verdict |-> "none"]

Init ==
    /\ \E d \in Decks :
          LET g == Game_init(d)
          IN  /\ stock_deck = g.stock_deck
              /\ decks = g.decks
              /\ foundations = g.foundations
              /\ hand_deck = g.hand_deck
    /\ call = Idle
    /\ card_module \in CardModules

\* One call of Game.place, from its first line to its return or raise.
Place ==
    /\ call.res = "idle"
    /\ \E n \in TakeNumbers, ti \in Indices, pi \in Indices :
          LET r == place(Game, n, ti, pi)
          IN  /\ stock_deck' = r.g.stock_deck
              /\ decks' = r.g.decks
              /\ foundations' = r.g.foundations
              /\ hand_deck' = r.g.hand_deck
              /\ call' = [n |-> n, ti |-> ti, pi |-> pi, res |-> r.res,
                          verdict |-> r.verdict]
    /\ UNCHANGED card_module

\* The caller takes the outcome (the returned game or the exception) and is
\* free to call place again.
Return ==
    /\ call.res # "idle"
    /\ call' = Idle
    /\ UNCHANGED <<stock_deck, decks, foundations, hand_deck, card_module>>

Next == Place \/ Return

Spec == Init /\ [][Next]_vars

(***************************************************************************)
(* A second game, played to its end.  DeckWin is a deal that can be won by *)
(* building on the foundations: tableau 0 shows the King of Diamonds, the  *)
(* tableaus 1..6 hold the Spades and the Clubs up to the Eight above their *)
(* bottom cards Queen..Seven of Diamonds, and the stock gives the Clubs    *)
(* from the Nine, the Hearts and the Diamonds up to the Six, in order.     *)
(* Until the game is finished the caller of this game plays forward: the   *)
(* source is the stock, a tableau or an index of no pile, the destination  *)
(* a foundation, the stock, tableau 0 or 6, or an index of no pile.  Once  *)
(* the game is finished the caller tries every source and destination.     *)
(***************************************************************************)
DeckWin ==
    << Card(DIAMONDS, 6), Card(DIAMONDS, 5), Card(DIAMONDS, 4), Card(DIAMONDS, 3),
       Card(DIAMONDS, 2), Card(DIAMONDS, 1), Card(HEARTS, 13), Card(HEARTS, 12),
       Card(HEARTS, 11), Card(HEARTS, 10), Card(HEARTS, 9), Card(HEARTS, 8),
       Card(HEARTS, 7), Card(HEARTS, 6), Card(HEARTS, 5), Card(HEARTS, 4),
       Card(HEARTS, 3), Card(HEARTS, 2), Card(HEARTS, 1), Card(CLUBS, 13),
       Card(CLUBS, 12), Card(CLUBS, 11), Card(CLUBS, 10), Card(CLUBS, 9),
       Card(CLUBS, 3), Card(CLUBS, 4), Card(CLUBS, 5), Card(CLUBS, 6),
       Card(CLUBS, 7), Card(CLUBS, 8), Card(DIAMONDS, 7), Card(SPADES, 11),
       Card(SPADES, 12), Card(SPADES, 13), Card(CLUBS, 1), Card(CLUBS, 2),
       Card(DIAMONDS, 8), Card(SPADES, 7), Card(SPADES, 8), Card(SPADES, 9),
       Card(SPADES, 10), Card(DIAMONDS, 9), Card(SPADES, 4), Card(SPADES, 5),
       Card(SPADES, 6), Card(DIAMONDS, 10), Card(SPADES, 2), Card(SPADES, 3),
       Card(DIAMONDS, 11), Card(SPADES, 1), Card(DIAMONDS, 12), Card(DIAMONDS, 13) >>

WinSources == {STOCK_INDEX} \cup (0..7)

WinDests == {-19, STOCK_INDEX, 0, 6, 7} \cup (16..19)

InitWin ==
    /\ LET g == Game_init(DeckWin)
       IN  /\ stock_deck = g.stock_deck
           /\ decks = g.decks
           /\ foundations = g.foundations
           /\ hand_deck = g.hand_deck
    /\ call = Idle
    /\ card_module \in CardModules

\* One call of Game.place in the second game.
PlaceWin ==
    /\ call.res = "idle"
    /\ \E n \in TakeNumbers,
          ti \in (IF is_finished(Game) THEN Indices ELSE WinSources),
          pi \in (IF is_finished(Game) THEN Indices ELSE WinDests) :
          LET r == place(Game, n, ti, pi)
          IN  /\ stock_deck' = r.g.stock_deck
              /\ decks' = r.g.decks
              /\ foundations' = r.g.foundations
              /\ hand_deck' = r.g.hand_deck
              /\ call' = [n |-> n, ti |-> ti, pi |-> pi, res |-> r.res,
                          verdict |-> r.verdict]
    /\ UNCHANGED card_module

NextWin == PlaceWin \/ Return

SpecWin == InitWin /\ [][NextWin]_vars

(***************************************************************************)
(* Vocabulary of the properties.                                           *)
(***************************************************************************)
Tableaus == 0..(NUM_TABLEAUS - 1)

Foundations == 0..(NUM_SUITS - 1)

TableauCards(i) == decks[i].hidden_deck \o decks[i].shown_deck

\* Every card the game holds, container after container.
AllHeld ==
    stock_deck
    \o TableauCards(0) \o TableauCards(1) \o TableauCards(2) \o TableauCards(3)
    \o TableauCards(4) \o TableauCards(5) \o TableauCards(6)
    \o foundations[0] \o foundations[1] \o foundations[2] \o foundations[3]
    \o hand_deck

IsRed(c) == c.suit \in {HEARTS, DIAMONDS}

IsPrefix(s, t) == Len(s) <= Len(t) /\ SubSeq(t, 1, Len(s)) = s

LastN(s, n) == SubSeq(s, Len(s) - n + 1, Len(s))

DropN(s, n) == SubSeq(s, 1, Len(s) - n)

\* A place call has just ended (with a result the caller has not taken yet).
Called == call.res # "idle"

Containers == <<stock_deck, decks, foundations, hand_deck>>

(***************************************************************************)
(* C1  Conservation: in every reachable state each of the 52 cards is in   *)
(* exactly one of stock, tableaus (hidden or shown), foundations and hand; *)
(* none is duplicated, none is lost.                                       *)
(***************************************************************************)
C1_Conservation ==
    /\ Len(AllHeld) = Cardinality(AllCards)
    /\ {AllHeld[k] : k \in 1..Len(AllHeld)} = AllCards

\* A run of two cards has been moved from a tableau onto a foundation, and
\* a hidden card has been turned face up.
C1_Witness ==
    /\ call.res = "ok" /\ call.n = 2
    /\ call.ti \in Tableaus /\ call.pi \in 16..19
    /\ Len(decks[call.ti].hidden_deck) < call.ti
    /\ Len(foundations[call.pi - FOUNDATION_BIT]) >= 3

(***************************************************************************)
(* C2  Failure atomicity: a place call that ends with an error leaves the  *)
(* stock, every tableau (hidden and shown), every foundation and the hand  *)
(* exactly as they were before the call.                                   *)
(***************************************************************************)
C2_FailureAtomicity ==
    [][(call'.res \notin {"idle", "ok"}) => UNCHANGED Containers]_vars

\* A run of two cards was offered to a foundation, which refused its
\* bottom card, and the hand is empty.
C2_Witness ==
    /\ call.res = "MoveError" /\ call.verdict = "reject"
    /\ call.n = 2 /\ call.ti \in Tableaus /\ call.pi \in 16..19
    /\ Len(decks[call.ti].shown_deck) >= 2
    /\ hand_deck = <<>>

(***************************************************************************)
(* C3  Foundation monotonicity: in every reachable state a foundation of   *)
(* k cards holds exactly the ranks 1..k, bottom to top, of its own suit.   *)
(***************************************************************************)
C3_FoundationMonotonic ==
    \A i \in Foundations :
        \A k \in 1..Len(foundations[i]) : foundations[i][k] = Card(i, k)

(***************************************************************************)
(* C4  Alternating-colour descent: in every reachable state every          *)
(* tableau's shown sequence is a run: each card is one rank lower than,    *)
(* and of the other colour than, the card directly beneath it.             *)
(***************************************************************************)
C4_AlternatingDescent ==
    \A i \in Tableaus :
        \A k \in 1..(Len(decks[i].shown_deck) - 1) :
            /\ decks[i].shown_deck[k].face - decks[i].shown_deck[k + 1].face = 1
            /\ IsRed(decks[i].shown_deck[k]) # IsRed(decks[i].shown_deck[k + 1])

\* A successful place has built a shown run of at least three cards.
C4_Witness ==
    /\ call.res = "ok"
    /\ \E i \in Tableaus : call.pi = i /\ Len(decks[i].shown_deck) >= 3

(***************************************************************************)
(* C5  The hand buffer is empty after construction and before and after    *)
(* every place call, successful or failed.                                 *)
(***************************************************************************)
C5_HandEmpty == hand_deck = <<>>

\* A place call has moved cards through the hand and succeeded.
C5_Witness == call.res = "ok" /\ call.n >= 2 /\ hand_deck = <<>>

(***************************************************************************)
(* What a place call is about, read in the state before the call.          *)
(***************************************************************************)
\* The cards the source of index ti offers: the stock, or the shown cards of
\* a tableau.
SourceCards(ti) ==
    IF ti = STOCK_INDEX THEN stock_deck ELSE decks[ti].shown_deck

\* The call can move a run: the source is the stock and one card is asked
\* for, or the source is a tableau that shows at least n >= 1 cards.
Movable(n, ti) ==
    \/ ti = STOCK_INDEX /\ n = 1 /\ stock_deck # <<>>
    \/ ti \in Tableaus /\ 1 <= n /\ n <= Len(decks[ti].shown_deck)

\* The candidate of place(n, ti, _): source.deck[-n].
Candidate(n, ti) == PyGet(RefDeck(Game, TakeRef(ti)), 0 - n)

\* The source tableau after n of its shown cards have left, reveal included.
AfterTake(pile, n) ==
    IF Len(pile.shown_deck) > n \/ pile.hidden_deck = <<>>
    THEN [hidden_deck |-> pile.hidden_deck, shown_deck |-> DropN(pile.shown_deck, n)]
    ELSE [hidden_deck |-> DropN(pile.hidden_deck, 1),
          shown_deck |-> LastN(pile.hidden_deck, 1)]

(***************************************************************************)
(* C6  Effect of a successful place(count, source, dest): the top count    *)
(* cards of the source (the stock's top card, or the top count shown cards *)
(* of a tableau) leave the source and are appended to the top of the       *)
(* destination in their order; every other container is unchanged, apart   *)
(* from the reveal step of the source tableau.                             *)
(***************************************************************************)
C6_Effect(n, ti, pi) ==
    LET moved == LastN(SourceCards(ti), n)
        dest == PutRef(pi)
        d == RefPos(dest)
    IN  /\ Movable(n, ti)
        /\ hand_deck' = hand_deck
        /\ stock_deck' = IF ti = STOCK_INDEX THEN DropN(stock_deck, n) ELSE stock_deck
        /\ \A i \in Tableaus :
              decks'[i] =
                 IF i = ti THEN AfterTake(decks[i], n)
                 ELSE IF dest.kind = "tableau" /\ i = d
                      THEN [hidden_deck |-> decks[i].hidden_deck,
                            shown_deck |-> decks[i].shown_deck \o moved]
                      ELSE decks[i]
        /\ \A i \in Foundations :
              foundations'[i] =
                 IF dest.kind = "foundation" /\ i = d
                 THEN foundations[i] \o moved
                 ELSE foundations[i]

C6_SuccessEffect ==
    [][call'.res = "ok" => C6_Effect(call'.n, call'.ti, call'.pi)]_vars

\* A run of two or more cards has been moved onto a tableau from a tableau
\* that had hidden cards left and showed nothing else.
C6_Witness ==
    /\ call.res = "ok" /\ call.n >= 2
    /\ call.ti \in Tableaus /\ call.pi \in Tableaus
    /\ Len(decks[call.ti].shown_deck) = 1
    /\ Len(decks[call.pi].shown_deck) > call.n

(***************************************************************************)
(* C7  Tableau acceptance rule: a place onto a tableau is accepted iff,    *)
(* for the candidate source.deck[-count], either the destination shows     *)
(* cards, its top card is exactly one rank above the candidate and of the  *)
(* other colour, or the destination shows nothing and the candidate is a   *)
(* King.  A call that can move a run succeeds exactly when it is accepted. *)
(***************************************************************************)
TableauRule(shown, c) ==
    \/ /\ shown # <<>>
       /\ shown[Len(shown)].face - c.face = 1
       /\ IsRed(shown[Len(shown)]) # IsRed(c)
    \/ /\ shown = <<>>
       /\ c.face = KING

C7_TableauAcceptance ==
    [][(call'.verdict # "none" /\ call'.pi \in Tableaus) =>
         LET rule == TableauRule(decks[call'.pi].shown_deck, Candidate(call'.n, call'.ti))
         IN  /\ (call'.verdict = "accept") <=> rule
             /\ Movable(call'.n, call'.ti) => ((call'.res = "ok") <=> rule)]_vars

(***************************************************************************)
(* C8  Foundation acceptance rule, as claimed: verify(candidate) is true   *)
(* iff the foundation is empty and the candidate is an Ace, or the         *)
(* foundation is not empty, the candidate is of the foundation's suit and  *)
(* one rank above its top card.                                            *)
(***************************************************************************)
FoundationRuleClaimed(deck, suit, c) ==
    \/ deck = <<>> /\ c.face = ACE
    \/ deck # <<>> /\ c.suit = suit /\ c.face - deck[Len(deck)].face = 1

C8_FoundationAcceptanceClaimed ==
    [][(call'.verdict # "none" /\ PutRef(call'.pi).kind = "foundation") =>
         LET d == RefPos(PutRef(call'.pi))
         IN  (call'.verdict = "accept")
               <=> FoundationRuleClaimed(foundations[d], d, Candidate(call'.n, call'.ti))]_vars

(***************************************************************************)
(* C8 (amended)  verify(candidate) is true iff the candidate is of the     *)
(* foundation's suit and either the foundation is empty and the candidate  *)
(* is an Ace, or the foundation is not empty and the candidate is one rank *)
(* above its top card.  A one-card call that can move succeeds exactly     *)
(* when it is accepted.                                                    *)
(***************************************************************************)
FoundationRule(deck, suit, c) ==
    /\ c.suit = suit
    /\ \/ deck = <<>> /\ c.face = ACE
       \/ deck # <<>> /\ c.face - deck[Len(deck)].face = 1

C8_FoundationAcceptance ==
    [][(call'.verdict # "none" /\ PutRef(call'.pi).kind = "foundation") =>
         LET d == RefPos(PutRef(call'.pi))
             rule == FoundationRule(foundations[d], d, Candidate(call'.n, call'.ti))
         IN  /\ (call'.verdict = "accept") <=> rule
             /\ (call'.n = 1 /\ Movable(call'.n, call'.ti))
                   => ((call'.res = "ok") <=> rule)]_vars

\* The Ace of another suit has been refused by an empty foundation.
C8_Witness ==
    /\ call.verdict = "reject" /\ call.pi \in 16..19
    /\ foundations[call.pi - FOUNDATION_BIT] = <<>>
    /\ Candidate(call.n, call.ti).face = ACE
    /\ Candidate(call.n, call.ti).suit # call.pi - FOUNDATION_BIT

(***************************************************************************)
(* C9  With the stock as source (sourceIndex = -1), place fails with the   *)
(* illegal-move error for every count other than 1, zero and negative      *)
(* counts included, and leaves all containers unchanged.                   *)
(***************************************************************************)
C9_StockCountOne ==
    [][(call'.res # "idle" /\ call'.ti = STOCK_INDEX /\ call'.n # 1) =>
         (call'.res = "MoveError" /\ UNCHANGED Containers)]_vars

(***************************************************************************)
(* C10  Cards never leave a foundation: a place call whose source is a     *)
(* foundation (16..19) never succeeds and changes no container, and over   *)
(* every step each foundation keeps the cards it has, in place: it only    *)
(* ever grows at the top.                                                  *)
(***************************************************************************)
C10_FoundationKeepsCards ==
    [][/\ \A i \in Foundations : IsPrefix(foundations[i], foundations'[i])
       /\ (call'.res # "idle" /\ call'.ti \in 16..19) =>
             (call'.res # "ok" /\ UNCHANGED Containers)]_vars

\* A card on a foundation was asked for, the destination would have taken
\* it, and the foundation refused to give it.
C10_Witness ==
    /\ call.ti \in 16..19 /\ call.verdict = "accept"
    /\ call.res = "NotImplementedError"
    /\ foundations[call.ti - FOUNDATION_BIT] # <<>>

(***************************************************************************)
(* C11  Tableau reveal: a take on a tableau that removes every shown card  *)
(* while hidden cards remain moves exactly one card, the former top of     *)
(* hidden, to shown (shown has exactly one card, hidden is one shorter);   *)
(* so in every state between place calls no tableau has an empty shown     *)
(* deck together with a non-empty hidden deck.                             *)
(***************************************************************************)
C11_NoBareHidden ==
    \A i \in Tableaus : decks[i].shown_deck = <<>> => decks[i].hidden_deck = <<>>

\* The call of the step took n cards from tableau ti: verify accepted and
\* the tableau showed at least n >= 1 cards.
C11_Took(n, ti) ==
    /\ ti \in Tableaus
    /\ 1 <= n /\ n <= Len(decks[ti].shown_deck)

C11_TableauReveal ==
    /\ []C11_NoBareHidden
    /\ [][(call'.verdict = "accept" /\ C11_Took(call'.n, call'.ti)
              /\ call'.n = Len(decks[call'.ti].shown_deck)
              /\ decks[call'.ti].hidden_deck # <<>>) =>
            /\ decks'[call'.ti].shown_deck = LastN(decks[call'.ti].hidden_deck, 1)
            /\ decks'[call'.ti].hidden_deck = DropN(decks[call'.ti].hidden_deck, 1)]_vars

\* The only shown card of a tableau has been moved away and the tableau
\* shows one card again, with fewer hidden cards than it was dealt.
C11_Witness ==
    /\ call.res = "ok" /\ call.n = 1 /\ call.ti \in Tableaus
    /\ Len(decks[call.ti].shown_deck) = 1
    /\ decks[call.ti].hidden_deck # <<>>
    /\ Len(decks[call.ti].hidden_deck) < call.ti

\* The indices the interface documents: the stock, the seven tableaus and
\* the four foundations.
ValidIndices == {STOCK_INDEX} \cup Tableaus \cup (FOUNDATION_BIT..(FOUNDATION_BIT + NUM_SUITS - 1))

\* A place call ended in this step.
Ended == call'.res # "idle"

(***************************************************************************)
(* C12  The stock is never a destination: place with destIndex = -1 fails  *)
(* with the illegal-move error for every source and count, and over every  *)
(* step the stock never grows: it loses exactly its top card on each       *)
(* successful place from the stock and is otherwise unchanged.             *)
(***************************************************************************)
C12_StockNeverDestination ==
    [][/\ (Ended /\ call'.pi = STOCK_INDEX) =>
             (call'.res = "MoveError" /\ UNCHANGED Containers)
       /\ Len(stock_deck') <= Len(stock_deck)
       /\ IF call'.res = "ok" /\ call'.ti = STOCK_INDEX
          THEN stock_deck # <<>> /\ stock_deck' = DropN(stock_deck, 1)
          ELSE stock_deck' = stock_deck]_vars

\* After cards have been drawn from the stock, a tableau card was offered
\* to the stock and refused.
C12_Witness ==
    /\ call.pi = STOCK_INDEX /\ call.ti \in Tableaus /\ call.n = 1
    /\ call.res = "MoveError"
    /\ Len(stock_deck) < Cardinality(AllCards) - DealtBefore(NUM_TABLEAUS)

(***************************************************************************)
(* C13  No-op rejection: for every valid index i (-1, 0..6, 16..19) and    *)
(* every count n, place(n, i, i) fails with the illegal-move error and     *)
(* leaves all containers unchanged, whatever the piles hold.               *)
(***************************************************************************)
C13_NoOpRejection ==
    [][(Ended /\ call'.ti = call'.pi /\ call'.ti \in ValidIndices) =>
          (call'.res = "MoveError" /\ UNCHANGED Containers)]_vars

\* A foundation that holds cards was named as source and destination of a
\* one-card move.
C13_Witness ==
    /\ call.ti = call.pi /\ call.ti \in 16..19 /\ call.n = 1
    /\ call.res = "MoveError"
    /\ foundations[call.ti - FOUNDATION_BIT] # <<>>

(***************************************************************************)
(* C14  Terminal check: in every reachable state is_finished() returns     *)
(* true iff all four foundations hold exactly 13 cards; in every state     *)
(* reached before that it returns false.                                   *)
(***************************************************************************)
AllFoundationsFull ==
    \A i \in Foundations : Len(foundations[i]) = Cardinality(CardFace)

C14_TerminalCheck == is_finished(Game) <=> AllFoundationsFull

\* The game has been played to its end, and is_finished says so.
C14_Witness == is_finished(Game) /\ AllFoundationsFull /\ call.res = "ok"

(***************************************************************************)
(* C15  Addressing round-trip: for every valid encoded index (-1; 0..6;    *)
(* 16..19), decoding it as place does to (pile kind, local index) and      *)
(* encoding that again gives the index back, and distinct valid indices    *)
(* resolve to distinct piles: -1 to the stock, 0..6 to tableau i, 16..19   *)
(* to foundation i - 16.                                                   *)
(***************************************************************************)
\* What place makes of a source index: the kind of pile and the position in
\* the list of piles of that kind.
Decode(i) == [kind |-> TakeRef(i).kind, local |-> RefPos(TakeRef(i))]

\* The same for a destination index.
DecodePut(i) == [kind |-> PutRef(i).kind, local |-> RefPos(PutRef(i))]

\* The index of a pile: -1 for the stock, the position for a tableau, the
\* position with the 0x10 bit folded in for a foundation.
Encode(ref) ==
    IF ref.kind = "stock" THEN STOCK_INDEX
    ELSE IF ref.kind = "foundation" THEN Xor16(ref.local)
    ELSE ref.local

\* The pile the addressing scheme assigns to a valid index.
Addressed(i) ==
    IF i = STOCK_INDEX THEN [kind |-> "stock", local |-> 0]
    ELSE IF i \in Tableaus THEN [kind |-> "tableau", local |-> i]
    ELSE [kind |-> "foundation", local |-> i - FOUNDATION_BIT]

\* The cards of an addressed pile that place may read.
PileDeck(ref) ==
    IF ref.kind = "stock" THEN stock_deck
    ELSE IF ref.kind = "tableau" THEN decks[ref.local].shown_deck
    ELSE foundations[ref.local]

\* Stated of the indices of the call made last; the calls of the model go
\* through every pair of indices in every state.
C15_AddressingRoundTrip ==
    /\ call.ti \in ValidIndices =>
          /\ RefOk(TakeRef(call.ti))
          /\ Decode(call.ti) = Addressed(call.ti)
          /\ Encode(Decode(call.ti)) = call.ti
          /\ RefDeck(Game, TakeRef(call.ti)) = PileDeck(Addressed(call.ti))
    /\ call.pi \in ValidIndices \ {STOCK_INDEX} =>
          /\ RefOk(PutRef(call.pi))
          /\ DecodePut(call.pi) = Addressed(call.pi)
          /\ Encode(DecodePut(call.pi)) = call.pi
    /\ (call.ti \in ValidIndices /\ call.pi \in ValidIndices /\ call.ti # call.pi) =>
          Decode(call.ti) # Decode(call.pi)

\* A card has gone from a tableau to a foundation, both named by their
\* encoded indices, and lies on top of the foundation the index decodes to.
C15_Witness ==
    /\ call.res = "ok" /\ call.n = 1
    /\ call.ti \in Tableaus /\ call.pi \in 16..19
    /\ Decode(call.pi).kind = "foundation"
    /\ foundations[Decode(call.pi).local] # <<>>
    /\ Encode(Decode(call.pi)) = call.pi

(***************************************************************************)
(* C16  Initial deal: immediately after Game construction tableau i        *)
(* (i = 0..6) has exactly i hidden cards and exactly one shown card, the   *)
(* stock holds the remaining 24 cards, and all four foundations and the    *)
(* hand are empty.                                                         *)
(***************************************************************************)
DealShape ==
    /\ \A i \in Tableaus :
          /\ Len(decks[i].hidden_deck) = i
          /\ Len(decks[i].shown_deck) = 1
    /\ Len(stock_deck) = 24
    /\ {stock_deck[k] : k \in 1..Len(stock_deck)}
          = AllCards \ UNION {{TableauCards(i)[k] : k \in 1..Len(TableauCards(i))}
                                 : i \in Tableaus}
    /\ \A i \in Foundations : foundations[i] = <<>>
    /\ hand_deck = <<>>

\* The first state of every behaviour has the shape of the deal; later
\* steps are free.
C16_InitialDeal == DealShape /\ [][TRUE]_vars

\* The game as constructed, before any call of place: 28 cards on the
\* tableaus, the top one of each face up, no call made yet.
C16_Witness ==
    /\ call = Idle
    /\ DealShape
    /\ Len(AllHeld) = Cardinality(AllCards)
    /\ \A i \in Tableaus : decks[i].shown_deck = <<DeckPlay[Len(DeckPlay) - DealtBefore(i + 1) + 1]>>

(***************************************************************************)
(* C17  A place call changes a container only when sourceIndex is one of   *)
(* -1, 0..6, 16..19 and destIndex is one of 0..6, 16..19; with any other   *)
(* index (7..15, 20..31, negative values other than -1 such as -17..-20)   *)
(* the call fails and leaves every container unchanged.                    *)
(***************************************************************************)
C17_OnlyValidIndicesMutate ==
    [][(Ended /\ ~(/\ call'.ti \in ValidIndices
                   /\ call'.pi \in ValidIndices \ {STOCK_INDEX})) =>
          (call'.res # "ok" /\ UNCHANGED Containers)]_vars

(***************************************************************************)
(* C18  Every successful place whose destination is a foundation has       *)
(* count = 1 and makes that foundation exactly one card longer; a place of *)
(* more than one card from a tableau onto a foundation never succeeds,     *)
(* even when the bottom card of the run, source.deck[-count], is the next  *)
(* card the foundation accepts.                                            *)
(***************************************************************************)
\* The destination index of the call selects a foundation that exists.
ToFoundation(pi) ==
    pi # STOCK_INDEX /\ PutRef(pi).kind = "foundation" /\ RefOk(PutRef(pi))

C18_FoundationOneCard ==
    [][(Ended /\ ToFoundation(call'.pi)) =>
          LET d == RefPos(PutRef(call'.pi))
          IN  /\ call'.res = "ok" =>
                    /\ call'.n = 1
                    /\ Len(foundations'[d]) = Len(foundations[d]) + 1
              /\ (call'.n > 1 /\ call'.ti \in Tableaus) => call'.res # "ok"]_vars

(***************************************************************************)
(* C19  A place call whose count is less than 1 or greater than the number *)
(* of cards available in the source (the shown cards of a tableau, the     *)
(* cards in the stock), any place from an empty source included, never     *)
(* succeeds and leaves every container unchanged.                          *)
(***************************************************************************)
C19_CountOutOfRange ==
    [][(/\ Ended
        /\ call'.ti \in {STOCK_INDEX} \cup Tableaus
        /\ \/ call'.n < 1
           \/ call'.n > Len(SourceCards(call'.ti))) =>
          (call'.res # "ok" /\ UNCHANGED Containers)]_vars

\* A count of zero named the bottom card of a tableau's shown run, the
\* destination accepted that card, and the take refused the count.
C19_Witness ==
    /\ call.n = 0 /\ call.ti \in Tableaus
    /\ call.verdict = "accept"
    /\ call.res = "EmptyError"

(***************************************************************************)
(* C20  The finished state is stable and total: once is_finished() is      *)
(* true, the stock, every tableau (hidden and shown) and the hand are      *)
(* empty, every later place call fails, and is_finished() stays true for   *)
(* ever.                                                                   *)
(***************************************************************************)
NothingLeftToPlay ==
    /\ stock_deck = <<>>
    /\ \A i \in Tableaus : decks[i].hidden_deck = <<>> /\ decks[i].shown_deck = <<>>
    /\ hand_deck = <<>>

C20_FinishedStable ==
    /\ [](is_finished(Game) => NothingLeftToPlay)
    /\ [][is_finished(Game) =>
             /\ is_finished(Game')
             /\ Ended => call'.res # "ok"]_vars

\* In the finished game a King was asked for from its foundation for an
\* empty tableau, which would take it, and the foundation kept it.
C20_Witness ==
    /\ is_finished(Game) /\ NothingLeftToPlay
    /\ call.n = 1 /\ call.ti \in 16..19 /\ call.pi \in Tableaus
    /\ call.verdict = "accept"
    /\ call.res = "NotImplementedError"

====
